---- MODULE Spec2Model ----
(***************************************************************************)
(* Counter-set management of perf-events-rs (src/src/lib.rs): the builder  *)
(* CountsBuilder, the aggregate Counts and the kernel counters they own.   *)
(* One client holds at most one builder and one Counts at a time; the      *)
(* kernel is the environment: it decides the outcome of every open, enable *)
(* and read, and advances the counters that are enabled.                   *)
(***************************************************************************)
EXTENDS Integers, Sequences, FiniteSets, TLC

\* ------------------------------------------------------------------ bounds
\* Size of the event catalogue (events are 1..NumEvents, ordered by <).
NumEvents == 3
\* Largest value a kernel counter reaches in the model.
MaxCount == 1
\* Largest number of event()/all_available() calls made on one builder.
MaxCalls == 2
RingSize == 2
MaxWritten == 5

\* --------------------------------------------------------- value encodings
\* Option<T>: << >> is None, <<x>> is Some(x).
None == << >>
Some(x) == <<x>>

\* Result<T, E>
Ok(v) == [ok |-> TRUE, val |-> v]
Err(e) == [ok |-> FALSE, err |-> e]
Unit == "()"

\* The set of elements of a sequence.
Range(s) == {s[i] : i \in 1..Len(s)}

\* ---------------------------------------------------- external collaborators
\* events::Event, totally ordered (it is a BTreeSet / BTreeMap key).
Events == 1..NumEvents

\* Event::all_events(): the catalogue, in catalogue order.
AllEvents == [i \in 1..NumEvents |-> i]

\* sys::OpenError reasons.
OpenErrors == {"PermissionDenied", "Unsupported"}

\* Outcome of one open request: "ok" or the reason it fails with.
OpenOutcomes == {"ok"} \cup OpenErrors

\* PidConfig::Current | PidConfig::Other(pid)
PidCurrent == [tag |-> "Current", pid |-> 0]
PidOther(p) == [tag |-> "Other", pid |-> p]

\* CpuConfig::All | CpuConfig::Specific(cpu)
CpuAll == [tag |-> "All", cpu |-> -1]
CpuSpecific(c) == [tag |-> "Specific", cpu |-> c]

\* The scopes the client asks for.
Scopes == {<<PidCurrent, CpuAll>>, <<PidOther(7), CpuSpecific(0)>>}

VARIABLES
    builder,    \* Option<CountsBuilder>: the builder the client holds
    counts,     \* Option<Counts>: the Counts the client holds
    kernel,     \* open kernel handles: handle -> [event, pid, cpu, enabled, value]
    calls,      \* history: the event()/all_available() calls made on the builder,
                \* each as the sequence of events it asks for
    last,       \* history: the last API call, what it returned and the kernel
                \* requests it made (for read(): again, whether the call before
                \* it was a read() too; for drop: closed, the handles of the
                \* dropped counters, and failed, whether the call before it had
                \* a failed enable or read)
    conv,       \* the last header conversion: the function, its argument and
                \* how it ended
    stream,     \* the bytes the kernel produces for the record decoder
    fed,        \* the appends made to src: the length of each and whether decode followed
    src,        \* the BytesMut handed to RecordDecoder::decode
    dec,        \* the last decode() call: the buffer it was given and how it ended
    mem,        \* the ring buffer's data area, one byte per slot
    wpos,       \* the kernel's write cursor: how many bytes it has written
    data_head,  \* the write position the kernel has published
    data_tail,  \* the read position the consumer has published
    pc,         \* the drain loop's position: "idle" or "reading"
    seen,       \* the write position the drain loop loaded
    pos,        \* the drain loop's read cursor
    got,        \* the bytes the drain loop has handed to the decoder
    report      \* what the last drain reported: "none" yet, "nothing" or "bytes"

countsVars == <<builder, counts, kernel, calls, last>>
headerVars == <<conv>>
decoderVars == <<stream, fed, src, dec>>
ringVars == <<mem, wpos, data_head, data_tail, pc, seen, pos, got, report>>
vars ==
    <<builder, counts, kernel, calls, last, conv, stream, fed, src, dec,
      mem, wpos, data_head, data_tail, pc, seen, pos, got, report>>

\* ------------------------------------------------------------ EventCounter
\* The lowest handle number not in use.
FreeHandle(k) == CHOOSE h \in 1..(Cardinality(DOMAIN k) + 1) : h \notin DOMAIN k

\* EventCounter::new(event, pid, cpu): one scoped open request. On success the
\* kernel holds a new handle, disabled and at zero; on failure it holds nothing new.
EventCounterNew(event, pid, cpu, outcome, k) ==
    IF outcome = "ok"
    THEN LET h == FreeHandle(k)
         IN [res |-> Ok([event |-> event, handle |-> h]),
             kernel |-> [x \in DOMAIN k \cup {h} |->
                            IF x = h
                            THEN [event |-> event, pid |-> pid, cpu |-> cpu,
                                  enabled |-> FALSE, value |-> 0]
                            ELSE k[x]]]
    ELSE [res |-> Err(outcome), kernel |-> k]

\* ------------------------------------------------------------ CountsBuilder
\* Counts::new(pid, cpu)
CountsNew(pid, cpu) == [pid |-> pid, cpu |-> cpu, to_count |-> << >>]

\* An ordered insert that does not look for the key first (a sorted Vec).
BTreeInsertDup(s, e) ==
    LET lo == SelectSeq(s, LAMBDA x : x < e)
        hi == SelectSeq(s, LAMBDA x : x >= e)
    IN lo \o <<e>> \o hi

\* An insert that keeps the keys in the order they arrived (a Vec without
\* duplicates).
BTreeInsertAppend(s, e) == IF e \in Range(s) THEN s ELSE Append(s, e)

\* BTreeSet::insert on the set kept as its ascending sequence of keys: a key
\* already present is left alone, a new key goes to its place in the order.
BTreeInsert(s, e) ==
    IF e \in Range(s)
    THEN s
    ELSE LET lo == SelectSeq(s, LAMBDA x : x < e)
             hi == SelectSeq(s, LAMBDA x : x > e)
         IN lo \o <<e>> \o hi

\* An event() that builds its result from a fresh Counts::new of the default scope.
BuilderEventRescoped(b, event) ==
    [CountsNew(PidCurrent, CpuAll) EXCEPT !.to_count = BTreeInsert(b.to_count, event)]

\* CountsBuilder::event(event)
BuilderEvent(b, event) == [b EXCEPT !.to_count = BTreeInsert(b.to_count, event)]

\* CountsBuilder::all_available(): event(e) for every catalogued event in turn.
RECURSIVE AllAvailableFrom(_, _)
AllAvailableFrom(b, i) ==
    IF i > Len(AllEvents) THEN b
    ELSE AllAvailableFrom(BuilderEvent(b, AllEvents[i]), i + 1)

BuilderAllAvailable(b) == AllAvailableFrom(b, 1)

\* A map that keeps only the entry inserted last.
MapInsertForgetful(m, key, v) == [x \in {key} |-> v]

\* BTreeMap::insert
MapInsert(m, key, v) == [x \in DOMAIN m \cup {key} |-> IF x = key THEN v ELSE m[x]]
EmptyMap == [x \in {} |-> Unit]

\* A loop that gives up at the first failed open (as the ? operator would).
RECURSIVE CreateLoopShortCircuit(_, _, _, _)
CreateLoopShortCircuit(b, i, oo, acc) ==
    IF i > Len(b.to_count) THEN acc
    ELSE LET event == b.to_count[i]
             r == EventCounterNew(event, b.pid, b.cpu, oo[event], acc.kernel)
             req == [call |-> "open", event |-> event, pid |-> b.pid,
                     cpu |-> b.cpu, res |-> r.res]
         IN IF r.res.ok
            THEN CreateLoopShortCircuit(b, i + 1, oo,
                     [counters |-> Append(acc.counters, r.res.val),
                      failures |-> acc.failures,
                      kernel |-> r.kernel,
                      trace |-> Append(acc.trace, req)])
            ELSE [counters |-> acc.counters,
                  failures |-> MapInsert(acc.failures, event, r.res.err),
                  kernel |-> r.kernel,
                  trace |-> Append(acc.trace, req)]

\* The loop of create(): one EventCounter::new per element of to_count, in the
\* set's iteration order; a success is pushed, a failure goes to the map.
RECURSIVE CreateLoop(_, _, _, _)
CreateLoop(b, i, oo, acc) ==
    IF i > Len(b.to_count) THEN acc
    ELSE LET event == b.to_count[i]
             r == EventCounterNew(event, b.pid, b.cpu, oo[event], acc.kernel)
             req == [call |-> "open", event |-> event, pid |-> b.pid,
                     cpu |-> b.cpu, res |-> r.res]
         IN CreateLoop(b, i + 1, oo,
                [counters |-> IF r.res.ok THEN Append(acc.counters, r.res.val)
                              ELSE acc.counters,
                 failures |-> IF r.res.ok THEN acc.failures
                              ELSE MapInsert(acc.failures, event, r.res.err),
                 kernel |-> r.kernel,
                 trace |-> Append(acc.trace, req)])

\* An aggregate that needs more than one counter.
RetCountsOffByOne(counters) ==
    IF Len(counters) <= 1 THEN Err(Unit) ELSE Ok([counters |-> counters])

\* An aggregate built without looking at the number of counters.
RetCountsAlwaysOk(counters) == Ok([counters |-> counters])

\* ret_counts of create()
RetCounts(counters) ==
    IF Len(counters) = 0 THEN Err(Unit) ELSE Ok([counters |-> counters])

\* A failure result that hands out the map without looking at its size.
RetFailuresAlwaysErr(failures) == Err(failures)

\* ret_failures of create()
RetFailures(failures) ==
    IF Cardinality(DOMAIN failures) = 0 THEN Ok(Unit) ELSE Err(failures)

\* CountsBuilder::create(), given the outcome oo[e] of the open request for e.
BuilderCreate(b, oo, k) ==
    LET acc == CreateLoop(b, 1, oo,
                   [counters |-> << >>, failures |-> EmptyMap,
                    kernel |-> k, trace |-> << >>])
    IN [ret_counts |-> RetCounts(acc.counters),
        ret_failures |-> RetFailures(acc.failures),
        kernel |-> acc.kernel,
        trace |-> acc.trace]

\* ------------------------------------------------------------------- Counts
\* An enable that switches on every open handle (a group-wide enable).
CounterEnableGroup(c, outcome, k) ==
    IF outcome
    THEN [res |-> Ok(Unit), kernel |-> [h \in DOMAIN k |-> [k[h] EXCEPT !.enabled = TRUE]]]
    ELSE [res |-> Err("EnableError"), kernel |-> k]

\* EventCounter::enable(): on success the kernel counts on this handle.
CounterEnable(c, outcome, k) ==
    IF outcome
    THEN [res |-> Ok(Unit), kernel |-> [k EXCEPT ![c.handle].enabled = TRUE]]
    ELSE [res |-> Err("EnableError"), kernel |-> k]

\* A read that also resets the kernel's count (read-and-reset).
CounterReadAndReset(c, outcome, k) ==
    IF outcome
    THEN [res |-> Ok(<<c.event, k[c.handle].value>>),
          kernel |-> [k EXCEPT ![c.handle].value = 0]]
    ELSE [res |-> Err("ReadError"), kernel |-> k]

\* EventCounter::read(): the event paired with the handle's cumulative count.
CounterRead(c, outcome, k) ==
    IF outcome
    THEN [res |-> Ok(<<c.event, k[c.handle].value>>), kernel |-> k]
    ELSE [res |-> Err("ReadError"), kernel |-> k]

\* A drop that closes only the handles that were enabled.
CounterDropIfEnabled(c, k) ==
    IF k[c.handle].enabled THEN [x \in DOMAIN k \ {c.handle} |-> k[x]] ELSE k

\* Dropping an EventCounter closes its handle.
CounterDrop(c, k) == [x \in DOMAIN k \ {c.handle} |-> k[x]]

\* A start() that stops at the first failed enable (collecting into a Result).
RECURSIVE StartLoopShortCircuit(_, _, _, _)
StartLoopShortCircuit(cs, i, eo, acc) ==
    IF i > Len(cs) THEN acc
    ELSE LET r == CounterEnable(cs[i], eo[i], acc.kernel)
             req == [call |-> "enable", handle |-> cs[i].handle, res |-> r.res]
             nxt == [ret |-> Append(acc.ret, r.res),
                     kernel |-> r.kernel,
                     trace |-> Append(acc.trace, req)]
         IN IF r.res.ok THEN StartLoopShortCircuit(cs, i + 1, eo, nxt) ELSE nxt

\* self.counters.iter().map(|c| c.enable()).collect()
RECURSIVE StartLoop(_, _, _, _)
StartLoop(cs, i, eo, acc) ==
    IF i > Len(cs) THEN acc
    ELSE LET r == CounterEnable(cs[i], eo[i], acc.kernel)
             req == [call |-> "enable", handle |-> cs[i].handle, res |-> r.res]
         IN StartLoop(cs, i + 1, eo,
                [ret |-> Append(acc.ret, r.res),
                 kernel |-> r.kernel,
                 trace |-> Append(acc.trace, req)])

\* Counts::start(), given the outcome eo[i] of enabling the i-th counter.
CountsStart(c, eo, k) ==
    StartLoop(c.counters, 1, eo, [ret |-> << >>, kernel |-> k, trace |-> << >>])

\* A read() that stops at the first counter it cannot read.
RECURSIVE ReadLoopShortCircuit(_, _, _, _)
ReadLoopShortCircuit(cs, i, ro, acc) ==
    IF i > Len(cs) THEN acc
    ELSE LET r == CounterRead(cs[i], ro[i], acc.kernel)
             req == [call |-> "read", handle |-> cs[i].handle, res |-> r.res]
         IN IF r.res.ok
            THEN ReadLoopShortCircuit(cs, i + 1, ro,
                     [ret |-> Append(acc.ret, r.res.val),
                      kernel |-> r.kernel,
                      trace |-> Append(acc.trace, req)])
            ELSE [ret |-> acc.ret, kernel |-> r.kernel,
                  trace |-> Append(acc.trace, req)]

\* A read() that drops a counter it cannot read (as Vec::retain would).
RECURSIVE ReadLoopDropFailed(_, _, _, _)
ReadLoopDropFailed(cs, i, ro, acc) ==
    IF i > Len(cs) THEN acc
    ELSE LET r == CounterRead(cs[i], ro[i], acc.kernel)
             req == [call |-> "read", handle |-> cs[i].handle, res |-> r.res]
         IN ReadLoopDropFailed(cs, i + 1, ro,
                [ret |-> IF r.res.ok THEN Append(acc.ret, r.res.val) ELSE acc.ret,
                 kernel |-> IF r.res.ok THEN r.kernel ELSE CounterDrop(cs[i], r.kernel),
                 trace |-> Append(acc.trace, req)])

\* self.counters.iter_mut().filter_map(|c| c.read().ok()).collect()
RECURSIVE ReadLoop(_, _, _, _)
ReadLoop(cs, i, ro, acc) ==
    IF i > Len(cs) THEN acc
    ELSE LET r == CounterRead(cs[i], ro[i], acc.kernel)
             req == [call |-> "read", handle |-> cs[i].handle, res |-> r.res]
         IN ReadLoop(cs, i + 1, ro,
                [ret |-> IF r.res.ok THEN Append(acc.ret, r.res.val) ELSE acc.ret,
                 kernel |-> r.kernel,
                 trace |-> Append(acc.trace, req)])

\* Counts::read(), given the outcome ro[i] of reading the i-th counter.
CountsRead(c, ro, k) ==
    ReadLoop(c.counters, 1, ro, [ret |-> << >>, kernel |-> k, trace |-> << >>])

\* Dropping a Counts drops its counters.
RECURSIVE DropFrom(_, _, _)
DropFrom(cs, i, k) ==
    IF i > Len(cs) THEN k ELSE DropFrom(cs, i + 1, CounterDrop(cs[i], k))

CountsDrop(c, k) == DropFrom(c.counters, 1, k)

\* A start_all_available() that fails unless some enable succeeded.
CountsStartAllAvailableStrict(oo, eo, k) ==
    LET res == BuilderCreate(BuilderAllAvailable(CountsNew(PidCurrent, CpuAll)), oo, k)
        st == CountsStart(res.ret_counts.val, eo, res.kernel)
    IN IF res.ret_counts.ok /\ \E i \in 1..Len(st.ret) : st.ret[i].ok
       THEN [ret |-> Ok(res.ret_counts.val),
             res |-> <<res.ret_counts, res.ret_failures>>,
             started |-> Some(st.ret),
             kernel |-> st.kernel,
             trace |-> res.trace \o st.trace]
       ELSE [ret |-> Err("No counters started successfully."),
             res |-> <<res.ret_counts, res.ret_failures>>,
             started |-> None,
             kernel |-> k,
             trace |-> res.trace]

\* A start_all_available() that fails when some enable failed.
CountsStartAllAvailableAllOrNothing(oo, eo, k) ==
    LET res == BuilderCreate(BuilderAllAvailable(CountsNew(PidCurrent, CpuAll)), oo, k)
        st == CountsStart(res.ret_counts.val, eo, res.kernel)
    IN IF res.ret_counts.ok /\ \A i \in 1..Len(st.ret) : st.ret[i].ok
       THEN [ret |-> Ok(res.ret_counts.val),
             res |-> <<res.ret_counts, res.ret_failures>>,
             started |-> Some(st.ret),
             kernel |-> st.kernel,
             trace |-> res.trace \o st.trace]
       ELSE [ret |-> Err("No counters started successfully."),
             res |-> <<res.ret_counts, res.ret_failures>>,
             started |-> None,
             kernel |-> k,
             trace |-> res.trace]

\* Counts::start_all_available(): res is create()'s pair, started what the
\* discarded start() returned.
CountsStartAllAvailable(oo, eo, k) ==
    LET res == BuilderCreate(BuilderAllAvailable(CountsNew(PidCurrent, CpuAll)), oo, k)
    IN IF res.ret_counts.ok
       THEN LET st == CountsStart(res.ret_counts.val, eo, res.kernel)
            IN [ret |-> Ok(res.ret_counts.val),
                res |-> <<res.ret_counts, res.ret_failures>>,
                started |-> Some(st.ret),
                kernel |-> st.kernel,
                trace |-> res.trace \o st.trace]
       ELSE [ret |-> Err("No counters started successfully."),
             res |-> <<res.ret_counts, res.ret_failures>>,
             started |-> None,
             kernel |-> res.kernel,
             trace |-> res.trace]

\* ------------------------------------------------------------ record header
\* How a call ends: it returns a value or it panics.
Returned(v) == [kind |-> "value", val |-> v]
Panic(msg) == [kind |-> "panic", msg |-> msg]

\* a | b on unsigned integers
RECURSIVE BitOr(_, _)
BitOr(a, b) ==
    IF a = 0 THEN b
    ELSE IF b = 0 THEN a
    ELSE (IF a % 2 = 1 \/ b % 2 = 1 THEN 1 ELSE 0) + 2 * BitOr(a \div 2, b \div 2)

\* raw::PERF_RECORD_MISC_*: the cpu-mode subfield of misc and its values.
PERF_RECORD_MISC_CPUMODE_MASK == 7
PERF_RECORD_MISC_CPUMODE_UNKNOWN == 0
PERF_RECORD_MISC_KERNEL == 1
PERF_RECORD_MISC_USER == 2
PERF_RECORD_MISC_HYPERVISOR == 3
PERF_RECORD_MISC_GUEST_KERNEL == 4
PERF_RECORD_MISC_GUEST_USER == 5

\* raw::PERF_RECORD_MISC_*: the single-bit flags of misc.
PERF_RECORD_MISC_MMAP_DATA == 8192
PERF_RECORD_MISC_EXACT_IP == 16384
PERF_RECORD_MISC_EXT_RESERVED == 32768

\* enum SampledEventType with the wire value of each tag (raw::perf_event_type).
SampledEventType ==
    {<<1, "Mmap">>, <<2, "Lost">>, <<3, "Comm">>, <<4, "Exit">>,
     <<5, "ThrottleUnthrotte">>, <<7, "Fork">>, <<8, "Read">>, <<9, "Sample">>,
     <<10, "Mmap2">>, <<11, "Aux">>, <<12, "ItraceStart">>, <<13, "LostSamples">>,
     <<14, "Switch">>, <<15, "SwitchCpuWide">>}

\* SampledEventType::from_u32 (enum_from_primitive!): Some(tag) or None.
SampledEventTypeFromU32(n) ==
    IF \E t \in SampledEventType : t[1] = n
    THEN Some((CHOOSE t \in SampledEventType : t[1] = n)[2])
    ELSE None

\* CpuMode::from(n: u16)
CpuModeFrom(n) ==
    LET v == BitOr(n, PERF_RECORD_MISC_CPUMODE_MASK)
    IN CASE v = PERF_RECORD_MISC_CPUMODE_UNKNOWN -> Returned("Unknown")
         [] v = PERF_RECORD_MISC_KERNEL -> Returned("Kernel")
         [] v = PERF_RECORD_MISC_USER -> Returned("User")
         [] v = PERF_RECORD_MISC_HYPERVISOR -> Returned("Hypervisor")
         [] v = PERF_RECORD_MISC_GUEST_KERNEL -> Returned("GuestKernel")
         [] v = PERF_RECORD_MISC_GUEST_USER -> Returned("GuestUser")
         [] OTHER -> Panic(<<"unrecognized cpu mode", v>>)

\* Metadata::from(n: u16): the fields are built in order, so a panic of
\* CpuMode::from ends the call.
MetadataFrom(n) ==
    LET mode == CpuModeFrom(n)
    IN IF mode.kind = "panic" THEN mode
       ELSE Returned([_cpu_mode |-> mode.val,
                      _multipurpose_lol |-> BitOr(n, PERF_RECORD_MISC_MMAP_DATA) # 0,
                      _exact_ip |-> BitOr(n, PERF_RECORD_MISC_EXACT_IP) # 0,
                      _reserved |-> BitOr(n, PERF_RECORD_MISC_EXT_RESERVED) # 0])

\* EventHeader::from(raw: &perf_event_header): size, then event_type (unwrap of
\* from_u32), then misc.
EventHeaderFrom(raw) ==
    LET t == SampledEventTypeFromU32(raw.type_)
    IN IF t = None THEN Panic("unwrap on None")
       ELSE LET m == MetadataFrom(raw.misc)
            IN IF m.kind = "panic" THEN m
               ELSE Returned([size |-> raw.size, event_type |-> t[1], misc |-> m.val])

\* The misc values converted: every cpu-mode subfield value, alone and with
\* each flag bit, all flag bits and a bit outside every field.
MiscValues ==
    {m + f : m \in 0..PERF_RECORD_MISC_CPUMODE_MASK,
             f \in {0, PERF_RECORD_MISC_MMAP_DATA, PERF_RECORD_MISC_EXACT_IP,
                    PERF_RECORD_MISC_EXT_RESERVED,
                    PERF_RECORD_MISC_MMAP_DATA + PERF_RECORD_MISC_EXACT_IP
                        + PERF_RECORD_MISC_EXT_RESERVED,
                    PERF_RECORD_MISC_CPUMODE_MASK + 1}}

\* The raw headers converted: every type value up to one past the last tag, and
\* a few sizes.
RawHeaders == [type_ : 0..16, misc : MiscValues, size : {8, 40, 65535}]

\* ----------------------------------------------------------- record decoder
\* RecordDecoder::decode(&mut self, _src: &mut BytesMut): the outcome of the
\* call and the buffer it leaves.
RecordDecoderDecode(buf) == [out |-> Panic("not yet implemented"), src |-> buf]

\* size_of::<perf_event_header>(): u32 type_, u16 misc, u16 size.
HeaderWidth == 8

\* The bytes of a perf_event_header, little-endian.
HeaderBytes(type_, misc, size) ==
    <<type_ % 256, type_ \div 256, 0, 0,
      misc % 256, misc \div 256, size % 256, size \div 256>>

\* The bytes of a u32 and of a u64, little-endian.
U32Bytes(v) == <<v % 256, v \div 256, 0, 0>>

U64Bytes(v) == U32Bytes(v) \o U32Bytes(0)

\* The byte streams the kernel hands over: two well-formed records (EXIT, then
\* LOST), one well-formed record (FORK), a header of no known type, a SAMPLE
\* record whose call chain announces more entries than the record holds, the
\* front of a record whose rest never arrives, and nothing.
ExitRecord ==
    HeaderBytes(4, PERF_RECORD_MISC_USER, 32)
        \o U32Bytes(300) \o U32Bytes(1) \o U32Bytes(300) \o U32Bytes(1) \o U64Bytes(9)

LostRecord == HeaderBytes(2, PERF_RECORD_MISC_KERNEL, 24) \o U64Bytes(1) \o U64Bytes(2)

ForkRecord ==
    HeaderBytes(7, PERF_RECORD_MISC_USER, 32)
        \o U32Bytes(301) \o U32Bytes(300) \o U32Bytes(301) \o U32Bytes(300) \o U64Bytes(5)

UnknownRecord == HeaderBytes(0, PERF_RECORD_MISC_USER, HeaderWidth)

OverrunRecord == HeaderBytes(9, PERF_RECORD_MISC_USER, 24) \o U64Bytes(5) \o U64Bytes(4096)

TruncatedRecord == SubSeq(ForkRecord, 1, 12)

Streams ==
    {ExitRecord \o LostRecord, ForkRecord, UnknownRecord, OverrunRecord,
     TruncatedRecord, << >>}

\* How many bytes the appends f have put into the buffer.
RECURSIVE Appended(_)
Appended(f) == IF f = << >> THEN 0 ELSE f[1].n + Appended(Tail(f))

\* The call recorded in d panicked.
Panicked(d) == d.state = "called" /\ d.out.kind = "panic"

\* The outcome out is Ok(Some(record)).
Yielded(out) == out.kind = "value" /\ out.val.ok /\ out.val.val # None

\* -------------------------------------------------------------- ring buffer
\* The byte the kernel writes at stream position k.
ByteAt(k) == k + 1

\* The slot of the data area that holds stream position k.
Slot(k) == k % RingSize

\* The drain loop may read position p after having loaded write position observed.
ReadableBeyond(p, observed) == p < observed + 1

Readable(p, observed) == p < observed

\* ------------------------------------------------------------------ actions
\* No builder, no Counts, no open handle.
CountsIdle ==
    /\ builder = None
    /\ counts = None
    /\ kernel = EmptyMap
    /\ calls = << >>
    /\ last = [op |-> "init"]

\* No header has been converted.
HeaderIdle == conv = [fn |-> "none"]

\* decode() has not been called on the buffer.
NotCalled == [state |-> "idle", records |-> << >>]

\* The record decoder has nothing to decode.
DecoderIdle ==
    /\ stream = << >>
    /\ fed = << >>
    /\ src = << >>
    /\ dec = NotCalled

\* The ring buffer is empty and the drain loop is not running.
RingIdle ==
    /\ mem = [i \in 0..(RingSize - 1) |-> 0]
    /\ wpos = 0
    /\ data_head = 0
    /\ data_tail = 0
    /\ pc = "idle"
    /\ seen = 0
    /\ pos = 0
    /\ got = << >>
    /\ report = "none"

Init ==
    /\ CountsIdle
    /\ HeaderIdle
    /\ DecoderIdle
    /\ RingIdle

\* let b = Counts::new(pid, cpu);
New ==
    /\ builder = None
    /\ counts = None
    /\ \E scope \in Scopes :
          /\ builder' = Some(CountsNew(scope[1], scope[2]))
          /\ last' = [op |-> "new", pid |-> scope[1], cpu |-> scope[2]]
    /\ calls' = << >>
    /\ UNCHANGED <<counts, kernel>>
    /\ UNCHANGED <<headerVars, decoderVars, ringVars>>

\* let b = b.event(e);
Event ==
    /\ builder # None
    /\ Len(calls) < MaxCalls
    /\ \E e \in Events :
          /\ builder' = Some(BuilderEvent(builder[1], e))
          /\ calls' = Append(calls, <<e>>)
          /\ last' = [op |-> "event", arg |-> e]
    /\ UNCHANGED <<counts, kernel>>
    /\ UNCHANGED <<headerVars, decoderVars, ringVars>>

\* let b = b.all_available();
AllAvailable ==
    /\ builder # None
    /\ Len(calls) < MaxCalls
    /\ builder' = Some(BuilderAllAvailable(builder[1]))
    /\ calls' = Append(calls, AllEvents)
    /\ last' = [op |-> "all_available"]
    /\ UNCHANGED <<counts, kernel>>
    /\ UNCHANGED <<headerVars, decoderVars, ringVars>>

\* let (ret_counts, ret_failures) = b.create();
Create ==
    /\ builder # None
    /\ \E oo \in [Range(builder[1].to_count) -> OpenOutcomes] :
          \E r \in {BuilderCreate(builder[1], oo, kernel)} :
             /\ counts' = IF r.ret_counts.ok THEN Some(r.ret_counts.val) ELSE None
             /\ kernel' = r.kernel
             /\ last' = [op |-> "create", self |-> builder[1], calls |-> calls,
                         ret_counts |-> r.ret_counts,
                         ret_failures |-> r.ret_failures,
                         trace |-> r.trace]
    /\ builder' = None
    /\ calls' = << >>
    /\ UNCHANGED <<headerVars, decoderVars, ringVars>>

\* let results = counts.start();
Start ==
    /\ counts # None
    /\ \E eo \in [1..Len(counts[1].counters) -> BOOLEAN] :
          \E r \in {CountsStart(counts[1], eo, kernel)} :
             /\ kernel' = r.kernel
             /\ last' = [op |-> "start", ret |-> r.ret, trace |-> r.trace]
    /\ UNCHANGED <<builder, counts, calls>>
    /\ UNCHANGED <<headerVars, decoderVars, ringVars>>

\* let snapshot = counts.read();
Read ==
    /\ counts # None
    /\ \E ro \in [1..Len(counts[1].counters) -> BOOLEAN] :
          \E r \in {CountsRead(counts[1], ro, kernel)} :
             /\ kernel' = r.kernel
             /\ last' = [op |-> "read", ret |-> r.ret, trace |-> r.trace,
                         again |-> last.op = "read"]
    /\ UNCHANGED <<builder, counts, calls>>
    /\ UNCHANGED <<headerVars, decoderVars, ringVars>>

\* let counts = Counts::start_all_available();
StartAllAvailable ==
    /\ builder = None
    /\ counts = None
    /\ \E oo \in [Events -> OpenOutcomes] :
       \E eo \in [1..Cardinality({e \in Events : oo[e] = "ok"}) -> BOOLEAN] :
       \E r \in {CountsStartAllAvailable(oo, eo, kernel)} :
             /\ counts' = IF r.ret.ok THEN Some(r.ret.val) ELSE None
             /\ kernel' = r.kernel
             /\ last' = [op |-> "start_all_available", ret |-> r.ret,
                         res |-> r.res, started |-> r.started, trace |-> r.trace]
    /\ UNCHANGED <<builder, calls>>
    /\ UNCHANGED <<headerVars, decoderVars, ringVars>>

\* drop(counts);
Drop ==
    /\ counts # None
    /\ kernel' = CountsDrop(counts[1], kernel)
    /\ counts' = None
    /\ last' = [op |-> "drop",
                closed |-> {counts[1].counters[i].handle :
                               i \in 1..Len(counts[1].counters)},
                failed |-> \E i \in 1..Len(last.trace) :
                              /\ last.trace[i].call \in {"enable", "read"}
                              /\ ~last.trace[i].res.ok]
    /\ UNCHANGED <<builder, calls>>
    /\ UNCHANGED <<headerVars, decoderVars, ringVars>>

\* The kernel counts one more occurrence on an enabled counter.
Tick ==
    /\ \E h \in DOMAIN kernel :
          /\ kernel[h].enabled
          /\ kernel[h].value < MaxCount
          /\ kernel' = [kernel EXCEPT ![h].value = @ + 1]
    /\ UNCHANGED <<builder, counts, calls, last>>
    /\ UNCHANGED <<headerVars, decoderVars, ringVars>>

Next ==
    \/ New
    \/ Event
    \/ AllAvailable
    \/ Create
    \/ Start
    \/ Read
    \/ StartAllAvailable
    \/ Drop
    \/ Tick

Spec == Init /\ [][Next]_vars

\* ------------------------------------------------- record header conversions
\* A raw header is at hand and nothing has been converted yet.
InitHeader ==
    /\ CountsIdle
    /\ conv \in [fn : {"none"}, arg : RawHeaders]
    /\ DecoderIdle
    /\ RingIdle

\* let header = EventHeader::from(&raw);
ConvertHeader ==
    /\ conv.fn = "none"
    /\ conv' = [fn |-> "EventHeader::from", arg |-> conv.arg,
                out |-> EventHeaderFrom(conv.arg)]
    /\ UNCHANGED <<countsVars, decoderVars, ringVars>>

\* let mode = CpuMode::from(raw.misc);
ConvertCpuMode ==
    /\ conv.fn = "none"
    /\ conv' = [fn |-> "CpuMode::from", arg |-> conv.arg.misc,
                out |-> CpuModeFrom(conv.arg.misc)]
    /\ UNCHANGED <<countsVars, decoderVars, ringVars>>

\* let metadata = Metadata::from(raw.misc);
ConvertMetadata ==
    /\ conv.fn = "none"
    /\ conv' = [fn |-> "Metadata::from", arg |-> conv.arg.misc,
                out |-> MetadataFrom(conv.arg.misc)]
    /\ UNCHANGED <<countsVars, decoderVars, ringVars>>

NextHeader ==
    \/ ConvertHeader
    \/ ConvertCpuMode
    \/ ConvertMetadata

SpecHeader == InitHeader /\ [][NextHeader]_vars

\* -------------------------------------------------------- feeding the decoder
\* A byte stream is at hand, the buffer is empty and decode has not been called.
InitDecoder ==
    /\ CountsIdle
    /\ HeaderIdle
    /\ stream \in Streams
    /\ fed = << >>
    /\ src = << >>
    /\ dec = NotCalled
    /\ RingIdle

\* src.extend_from_slice(..): the caller appends the next byte of the stream,
\* or all that is left of it.
Feed ==
    /\ ~Panicked(dec)
    /\ \E n \in {1, Len(stream) - Appended(fed)} :
          /\ n >= 1
          /\ Appended(fed) + n <= Len(stream)
          /\ src' = src \o SubSeq(stream, Appended(fed) + 1, Appended(fed) + n)
          /\ fed' = Append(fed, [n |-> n, decoded |-> FALSE])
    /\ UNCHANGED <<stream, dec>>
    /\ UNCHANGED <<countsVars, headerVars, ringVars>>

\* decoder.decode(&mut src): a panic unwinds the caller, so nothing is appended
\* or decoded after it.
Decode ==
    /\ ~Panicked(dec)
    /\ \E r \in {RecordDecoderDecode(src)} :
          /\ src' = r.src
          /\ dec' = [state |-> "called", before |-> src, out |-> r.out,
                     records |-> IF Yielded(r.out)
                                 THEN Append(dec.records, r.out.val.val[1])
                                 ELSE dec.records]
    /\ fed' = [i \in 1..Len(fed) |->
                  IF i = Len(fed) THEN [fed[i] EXCEPT !.decoded = TRUE] ELSE fed[i]]
    /\ UNCHANGED stream
    /\ UNCHANGED <<countsVars, headerVars, ringVars>>

NextDecoder ==
    \/ Feed
    \/ Decode

SpecDecoder == InitDecoder /\ [][NextDecoder]_vars

\* ------------------------------------------------- draining the ring buffer
InitRing ==
    /\ CountsIdle
    /\ HeaderIdle
    /\ DecoderIdle
    /\ RingIdle

\* The kernel writes the next byte into the data area, if the consumer's
\* published read position leaves a free slot.
KernelWrite ==
    /\ wpos < MaxWritten
    /\ wpos - data_tail < RingSize
    /\ mem' = [mem EXCEPT ![Slot(wpos)] = ByteAt(wpos)]
    /\ wpos' = wpos + 1
    /\ UNCHANGED <<data_head, data_tail, pc, seen, pos, got, report>>
    /\ UNCHANGED <<countsVars, headerVars, decoderVars>>

\* The kernel publishes its write position, after the bytes below it.
KernelPublish ==
    /\ data_head < wpos
    /\ data_head' = wpos
    /\ UNCHANGED <<mem, wpos, data_tail, pc, seen, pos, got, report>>
    /\ UNCHANGED <<countsVars, headerVars, decoderVars>>

\* The drain loop loads the write position (acquire); with no new data it
\* reports that there is nothing to decode.
LoadHead ==
    /\ pc = "idle"
    /\ seen' = data_head
    /\ IF data_head = data_tail
       THEN /\ report' = "nothing"
            /\ UNCHANGED <<pc, pos>>
       ELSE /\ pc' = "reading"
            /\ pos' = data_tail
            /\ UNCHANGED report
    /\ UNCHANGED <<mem, wpos, data_head, data_tail, got>>
    /\ UNCHANGED <<countsVars, headerVars, decoderVars>>

\* The drain loop reads the next byte below the write position it loaded.
ReadByte ==
    /\ pc = "reading"
    /\ Readable(pos, seen)
    /\ got' = Append(got, mem[Slot(pos)])
    /\ pos' = pos + 1
    /\ UNCHANGED <<mem, wpos, data_head, data_tail, pc, seen, report>>
    /\ UNCHANGED <<countsVars, headerVars, decoderVars>>

\* The drain loop publishes its read position (release), having consumed the
\* bytes below it.
StoreTail ==
    /\ pc = "reading"
    /\ ~Readable(pos, seen)
    /\ data_tail' = pos
    /\ pc' = "idle"
    /\ report' = "bytes"
    /\ UNCHANGED <<mem, wpos, data_head, seen, pos, got>>
    /\ UNCHANGED <<countsVars, headerVars, decoderVars>>

Drain ==
    \/ LoadHead
    \/ ReadByte
    \/ StoreTail

NextRing ==
    \/ KernelWrite
    \/ KernelPublish
    \/ LoadHead
    \/ ReadByte
    \/ StoreTail

SpecRing == InitRing /\ [][NextRing]_vars

\* ------------------------------------------------------------------- claims
\* The kernel requests of the last call that were opens, and their outcomes.
Opens == SelectSeq(last.trace, LAMBDA q : q.call = "open")
OpenedEvents == {Opens[i].event : i \in {j \in 1..Len(Opens) : Opens[j].res.ok}}
FailedEvents == {Opens[i].event : i \in {j \in 1..Len(Opens) : ~Opens[j].res.ok}}

\* The counters of a Result<Counts, _>.
CountersOf(rc) == IF rc.ok THEN rc.val.counters ELSE << >>

\* C1: create() returns Ok(Counts) as its first result if and only if at least
\* one requested event opened; it returns Err(()) exactly when no counter opened.
C1_AggregateOkIffSomeOpened ==
    last.op = "create" =>
        /\ last.ret_counts.ok <=> OpenedEvents # {}
        /\ ~last.ret_counts.ok <=> (last.ret_counts = Err(Unit) /\ OpenedEvents = {})

\* create() succeeded although one of several requested events failed to open.
C1_Witness ==
    /\ last.op = "create"
    /\ last.ret_counts.ok
    /\ Cardinality(OpenedEvents) = 1
    /\ Cardinality(FailedEvents) = 2

\* C2: the second result of create() is Err(map) if and only if some requested
\* event failed to open; the keys of the map are exactly the events whose open
\* failed, each mapped to the OpenError of its own open attempt; this does not
\* depend on whether the first result is Ok or Err.
C2_FailureMapExact ==
    last.op = "create" =>
        /\ ~last.ret_failures.ok <=> FailedEvents # {}
        /\ last.ret_failures.ok => last.ret_failures.val = Unit
        /\ ~last.ret_failures.ok =>
              /\ DOMAIN last.ret_failures.err = FailedEvents
              /\ \A i \in 1..Len(Opens) :
                    ~Opens[i].res.ok =>
                        last.ret_failures.err[Opens[i].event] = Opens[i].res.err

\* Two events failed for different reasons while the aggregate succeeded.
C2_Witness ==
    /\ last.op = "create"
    /\ last.ret_counts.ok
    /\ ~last.ret_failures.ok
    /\ \E a, b \in DOMAIN last.ret_failures.err :
          last.ret_failures.err[a] # last.ret_failures.err[b]

\* C3: create() partitions the requested set: every requested event gets exactly
\* one open attempt whatever happened to earlier attempts, the events owning a
\* counter and the keys of the failure map are disjoint and together are the
\* requested set, the number of counters is the number of successful opens, and
\* when every open fails the result is Err(()) with a map covering every
\* requested event.
C3_Partition ==
    last.op = "create" =>
        LET requested == Range(last.self.to_count)
            counters == CountersOf(last.ret_counts)
            owners == {counters[i].event : i \in 1..Len(counters)}
            keys == IF last.ret_failures.ok THEN {}
                    ELSE DOMAIN last.ret_failures.err
        IN /\ \A e \in requested :
                 Cardinality({i \in 1..Len(Opens) : Opens[i].event = e}) = 1
           /\ \A i \in 1..Len(Opens) : Opens[i].event \in requested
           /\ owners \cap keys = {}
           /\ owners \cup keys = requested
           /\ Len(counters) = Cardinality({i \in 1..Len(Opens) : Opens[i].res.ok})
           /\ Cardinality(owners) = Len(counters)
           /\ (requested # {} /\ OpenedEvents = {}) =>
                 /\ last.ret_counts = Err(Unit)
                 /\ ~last.ret_failures.ok
                 /\ DOMAIN last.ret_failures.err = requested

\* The first requested event failed to open and a later one opened.
C3_Witness ==
    /\ last.op = "create"
    /\ Len(Opens) = 3
    /\ ~Opens[1].res.ok
    /\ Opens[2].res.ok
    /\ ~Opens[3].res.ok

\* The events the builder calls of a history asked for, in call order.
RECURSIVE Flatten(_)
Flatten(cs) == IF cs = << >> THEN << >> ELSE Head(cs) \o Flatten(Tail(cs))

\* C4 (after create): every event the builder was asked for, however often,
\* gets exactly one open attempt and owns at most one counter.
C4_OneAttempt ==
    last.op = "create" =>
        \A e \in Range(Flatten(last.calls)) :
            /\ Cardinality({i \in 1..Len(Opens) : Opens[i].event = e}) = 1
            /\ LET counters == CountersOf(last.ret_counts)
               IN Cardinality({i \in 1..Len(counters) : counters[i].event = e}) <= 1

\* C4 (on event(e)): a call of event(e) for an e already requested leaves the
\* pending request set unchanged.
C4_ReAdd ==
    (/\ builder # None
     /\ builder' # None
     /\ Len(calls') = Len(calls) + 1
     /\ last'.op = "event"
     /\ last'.arg \in Range(builder[1].to_count))
    => builder'[1].to_count = builder[1].to_count

\* C4: adding events to the builder has set semantics: for any sequence of
\* event()/all_available() calls, event(e) for an e already requested leaves the
\* request set unchanged, and create() makes exactly one open attempt and yields
\* at most one counter for e.
C4_SetSemantics == [](C4_OneAttempt) /\ [][C4_ReAdd]_vars

\* The same event was asked for by two builder calls, and create() opened it.
C4_Witness ==
    /\ last.op = "create"
    /\ Len(last.calls) = 2
    /\ Range(last.calls[1]) \cap Range(last.calls[2]) \cap OpenedEvents # {}
    /\ Len(last.calls[2]) = 1

\* C5: every Counts that exists holds at least one EventCounter: the one the
\* client holds (through start(), read() and kernel activity) and the one
\* create() or start_all_available() has just returned.
C5_CountsNonEmpty ==
    /\ counts # None => Len(counts[1].counters) >= 1
    /\ (last.op = "create" /\ last.ret_counts.ok) =>
          Len(last.ret_counts.val.counters) >= 1
    /\ (last.op = "start_all_available" /\ last.ret.ok) =>
          Len(last.ret.val.counters) >= 1

\* A Counts with a single counter is still held after two reads that both failed.
C5_Witness ==
    /\ counts # None
    /\ Len(counts[1].counters) = 1
    /\ last.op = "read"
    /\ last.again
    /\ last.ret = << >>

\* The enable requests of the last call.
Enables == SelectSeq(last.trace, LAMBDA q : q.call = "enable")

\* start() on counters cs made the enable requests reqs and returned ret: one
\* request per counter, in counter order, and the i-th result is the outcome of
\* the i-th request.
StartedAll(cs, reqs, ret) ==
    /\ Len(reqs) = Len(cs)
    /\ Len(ret) = Len(cs)
    /\ \A i \in 1..Len(cs) :
          /\ reqs[i].handle = cs[i].handle
          /\ ret[i] = reqs[i].res

\* C6: start() attempts enable() on every counter exactly once and returns one
\* result per counter, the i-th being the outcome of enabling the i-th counter;
\* a failed enable does not prevent the attempt on any later counter.
C6_StartEnablesAll ==
    /\ last.op = "start" => StartedAll(counts[1].counters, Enables, last.ret)
    /\ (last.op = "start_all_available" /\ last.ret.ok) =>
          StartedAll(last.ret.val.counters, Enables, last.started[1])

\* start() on three counters: the first enable failed, the second succeeded.
C6_Witness ==
    /\ last.op = "start"
    /\ Len(last.ret) = 3
    /\ ~last.ret[1].ok
    /\ last.ret[2].ok
    /\ ~last.ret[3].ok

\* The place of the first x in the sequence s (0 when there is none).
FirstIndex(s, x) ==
    IF x \in Range(s) THEN CHOOSE i \in 1..Len(s) : s[i] = x /\ \A j \in 1..(i - 1) : s[j] # x
    ELSE 0

\* The events of a sequence of counters or of (event, count) entries ascend.
AscendingCounters(cs) == \A i, j \in 1..Len(cs) : i < j => cs[i].event < cs[j].event
AscendingEntries(es) == \A i, j \in 1..Len(es) : i < j => es[i][1] < es[j][1]

\* C7 as claimed: the counters create() returns are in request order: of two
\* events that both opened, the one added to the builder first has the earlier
\* counter.
C7_RequestOrder ==
    last.op = "create" =>
        LET counters == CountersOf(last.ret_counts)
            added == Flatten(last.calls)
        IN \A i, j \in 1..Len(counters) :
              FirstIndex(added, counters[i].event) < FirstIndex(added, counters[j].event)
                  => i < j

\* C7 as amended: the counters of a Counts, and with them the results of start()
\* and the entries of read(), are in ascending Event order (the iteration order
\* of the BTreeSet of requested events), whatever the order the events were
\* added in.
C7_EventOrder ==
    /\ counts # None => AscendingCounters(counts[1].counters)
    /\ last.op = "create" => AscendingCounters(CountersOf(last.ret_counts))
    /\ last.op = "start" =>
          \A i \in 1..Len(last.ret) :
              /\ Enables[i].handle = counts[1].counters[i].handle
              /\ last.ret[i] = Enables[i].res
    /\ last.op = "read" => AscendingEntries(last.ret)

\* Two events were added in descending order and both opened.
C7_Witness ==
    /\ last.op = "create"
    /\ Len(last.calls) = 2
    /\ Len(last.calls[1]) = 1
    /\ Len(last.calls[2]) = 1
    /\ last.calls[1][1] > last.calls[2][1]
    /\ {last.calls[1][1], last.calls[2][1]} \subseteq OpenedEvents

\* The read requests of the last call.
Reads == SelectSeq(last.trace, LAMBDA q : q.call = "read")

\* The values of the requests that succeeded, in request order.
RECURSIVE OkVals(_)
OkVals(reqs) ==
    IF reqs = << >> THEN << >>
    ELSE IF Head(reqs).res.ok THEN <<Head(reqs).res.val>> \o OkVals(Tail(reqs))
    ELSE OkVals(Tail(reqs))

\* C8: read() attempts a read on every counter and never fails as a whole: the
\* returned list holds exactly one (event, count) entry for each counter whose
\* read succeeded, in counter order, and none for a counter whose read failed.
C8_ReadBestEffort ==
    last.op = "read" =>
        /\ Len(Reads) = Len(counts[1].counters)
        /\ \A i \in 1..Len(Reads) :
              /\ Reads[i].handle = counts[1].counters[i].handle
              /\ Reads[i].res.ok => Reads[i].res.val[1] = counts[1].counters[i].event
        /\ last.ret = OkVals(Reads)

\* read() on three counters: the first and the third read failed, the second is
\* in the snapshot.
C8_Witness ==
    /\ last.op = "read"
    /\ Len(Reads) = 3
    /\ ~Reads[1].res.ok
    /\ Reads[2].res.ok
    /\ ~Reads[3].res.ok
    /\ Len(last.ret) = 1

\* C9: start_all_available() requests every catalogued event for
\* PidConfig::Current and CpuConfig::All and returns Err only when no counter
\* opened; when at least one opens it returns Ok with a Counts holding exactly
\* the opened counters, on which start() has been called.
C9_StartAllAvailable ==
    last.op = "start_all_available" =>
        /\ {Opens[i].event : i \in 1..Len(Opens)} = Events
        /\ Len(Opens) = Cardinality(Events)
        /\ \A i \in 1..Len(Opens) : Opens[i].pid = PidCurrent /\ Opens[i].cpu = CpuAll
        /\ last.ret.ok <=> OpenedEvents # {}
        /\ last.ret.ok =>
              /\ last.ret.val.counters = OkVals(Opens)
              /\ counts = Some(last.ret.val)
              /\ last.started # None
              /\ StartedAll(last.ret.val.counters, Enables, last.started[1])
        /\ ~last.ret.ok => (counts = None /\ Enables = << >>)

\* start_all_available() returned Ok although one event did not open and one
\* enable failed.
C9_Witness ==
    /\ last.op = "start_all_available"
    /\ last.ret.ok
    /\ FailedEvents # {}
    /\ \E i, j \in 1..Len(Enables) : Enables[i].res.ok /\ ~Enables[j].res.ok

\* A read() that follows a read(): every event in both snapshots has a count in
\* the new snapshot that is at least its count in the old one.
C10_Step ==
    (last.op = "read" /\ last'.op = "read" /\ last'.again) =>
        \A i \in 1..Len(last.ret), j \in 1..Len(last'.ret) :
            last.ret[i][1] = last'.ret[j][1] => last'.ret[j][2] >= last.ret[i][2]

\* C10: of two successive read() calls, every event present in both snapshots
\* has a count in the second that is at least its count in the first
\* (cumulative counters never decrease between reads).
C10_ReadsNonDecreasing == [][C10_Step]_vars

\* A second successive read() of a started Counts returned a count the kernel
\* had advanced.
C10_Witness ==
    /\ last.op = "read"
    /\ last.again
    /\ \E i \in 1..Len(last.ret) :
          /\ last.ret[i][2] >= 1
          /\ \E h \in DOMAIN kernel : kernel[h].event = last.ret[i][1] /\ kernel[h].enabled

\* The handles owned by the live EventCounters (those of the Counts held).
OwnedHandles ==
    IF counts = None THEN {}
    ELSE {counts[1].counters[i].handle : i \in 1..Len(counts[1].counters)}

\* C11: kernel counter resources never leak: the open kernel handles are exactly
\* the handles owned by live EventCounters; a failed open leaves no handle open,
\* and dropping a Counts closes every handle it owns at once, also when an
\* earlier enable or read on it failed.
C11_NoLeak ==
    /\ DOMAIN kernel = OwnedHandles
    /\ last.op = "create" =>
          Cardinality(DOMAIN kernel) = Cardinality({i \in 1..Len(Opens) : Opens[i].res.ok})
    /\ last.op = "drop" => (kernel = EmptyMap /\ last.closed # {})

\* A Counts with several counters was dropped right after a call in which an
\* enable or a read failed, and nothing is left open.
C11_Witness ==
    /\ last.op = "drop"
    /\ last.failed
    /\ Cardinality(last.closed) >= 2
    /\ DOMAIN kernel = {}

\* C12 (state): every live EventCounter holds an open handle, opened for its
\* event, and no two live EventCounters hold the same handle.
C12_HandlesValid ==
    counts # None =>
        LET cs == counts[1].counters
        IN /\ \A i \in 1..Len(cs) :
                 cs[i].handle \in DOMAIN kernel /\ kernel[cs[i].handle].event = cs[i].event
           /\ \A i, j \in 1..Len(cs) : cs[i].handle = cs[j].handle => i = j

\* C12 (step): a handle that stays open keeps its event and scope; it becomes
\* enabled only by a successful enable request on that very handle, and its
\* count changes only by the kernel counting on it, never by a call on a counter.
C12_Step ==
    \A h \in DOMAIN kernel \cap DOMAIN kernel' :
        /\ kernel'[h].event = kernel[h].event
        /\ kernel'[h].pid = kernel[h].pid
        /\ kernel'[h].cpu = kernel[h].cpu
        /\ kernel'[h].enabled # kernel[h].enabled =>
              /\ last'.op = "start"
              /\ \E i \in 1..Len(last'.trace) :
                    /\ last'.trace[i].call = "enable"
                    /\ last'.trace[i].handle = h
                    /\ last'.trace[i].res.ok
        /\ kernel'[h].value # kernel[h].value =>
              /\ last' = last
              /\ kernel[h].enabled
              /\ \A g \in (DOMAIN kernel \cap DOMAIN kernel') \ {h} : kernel'[g] = kernel[g]

\* C12: in every reachable state each live EventCounter holds a valid (open)
\* kernel handle from its construction until it is dropped, no two live
\* EventCounters hold the same handle, and enabling or reading one counter
\* changes no state of any other counter.
C12_ExclusiveHandles == [](C12_HandlesValid) /\ [][C12_Step]_vars

\* After a start() on three counters only the second one is enabled.
C12_Witness ==
    /\ last.op = "start"
    /\ Len(last.ret) = 3
    /\ \A i \in 1..3 :
          kernel[counts[1].counters[i].handle].enabled <=> i = 2

\* ----------------------------------------------------- record header claims
\* The cpu-mode subfield of a misc value: its low three bits.
CpuModeSubfield(n) == n % (PERF_RECORD_MISC_CPUMODE_MASK + 1)

\* The six defined cpu modes by subfield value.
DefinedModes ==
    {<<PERF_RECORD_MISC_CPUMODE_UNKNOWN, "Unknown">>,
     <<PERF_RECORD_MISC_KERNEL, "Kernel">>,
     <<PERF_RECORD_MISC_USER, "User">>,
     <<PERF_RECORD_MISC_HYPERVISOR, "Hypervisor">>,
     <<PERF_RECORD_MISC_GUEST_KERNEL, "GuestKernel">>,
     <<PERF_RECORD_MISC_GUEST_USER, "GuestUser">>}

IsDefinedMode(n) == \E d \in DefinedModes : d[1] = CpuModeSubfield(n)

ModeOf(n) == (CHOOSE d \in DefinedModes : d[1] = CpuModeSubfield(n))[2]

\* C17: a header whose type value matches no SampledEventType tag is reported
\* as a decode error value; EventHeader::from never panics on it.
C17_UnrecognizedTypeIsError ==
    (/\ conv.fn = "EventHeader::from"
     /\ SampledEventTypeFromU32(conv.arg.type_) = None)
        => conv.out.kind = "error"

\* C19: EventHeader::from maps a raw header with a recognized type tag t, a
\* defined cpu-mode subfield m and size s to EventHeader{event_type: t,
\* size: s, misc.cpu_mode: m}; (Exit, User with flags cleared, 40) included.
C19_HeaderFields ==
    (/\ conv.fn = "EventHeader::from"
     /\ SampledEventTypeFromU32(conv.arg.type_) # None
     /\ IsDefinedMode(conv.arg.misc))
        => /\ conv.out.kind = "value"
           /\ conv.out.val.event_type = SampledEventTypeFromU32(conv.arg.type_)[1]
           /\ conv.out.val.size = conv.arg.size
           /\ conv.out.val.misc._cpu_mode = ModeOf(conv.arg.misc)

\* C20: CpuMode::from is total over the misc values: it returns the mode of the
\* 3-bit cpu-mode subfield whatever the other bits are, and reports a decode
\* error, never a panic, for a subfield value outside the six defined ones.
C20_CpuModeTotal ==
    conv.fn = "CpuMode::from"
        => IF IsDefinedMode(conv.arg)
           THEN conv.out.kind = "value" /\ conv.out.val = ModeOf(conv.arg)
           ELSE conv.out.kind = "error"

\* ----------------------------------------------------- record decoder claims
\* The size and type fields of the header at the front of buf.
DeclaredSize(buf) == buf[7] + 256 * buf[8]

DeclaredType(buf) == buf[1] + 256 * buf[2]

\* buf holds less than a header, or less than the record its header declares.
Incomplete(buf) == Len(buf) < HeaderWidth \/ DeclaredSize(buf) > Len(buf)

\* buf without its first n bytes.
DropFront(buf, n) == SubSeq(buf, n + 1, Len(buf))

\* The wire value of a SampledEventType tag.
TagOf(name) == (CHOOSE t \in SampledEventType : t[2] = name)[1]

\* The complete record at the front of buf is a SAMPLE whose call chain (u64 nr,
\* then nr u64 entries) does not fit into the size its header declares.
CallChainOverrun(buf) ==
    /\ DeclaredType(buf) = TagOf("Sample")
    /\ HeaderWidth + 8 + 8 * (buf[HeaderWidth + 1] + 256 * buf[HeaderWidth + 2])
           > DeclaredSize(buf)

\* The complete record at the front of buf has a known type and no overrun.
FrontWellFormed(buf) ==
    /\ SampledEventTypeFromU32(DeclaredType(buf)) # None
    /\ ~CallChainOverrun(buf)

\* buf is a sequence of complete well-formed records.
RECURSIVE WellFormed(_)
WellFormed(buf) ==
    \/ buf = << >>
    \/ /\ ~Incomplete(buf)
       /\ DeclaredSize(buf) >= HeaderWidth
       /\ FrontWellFormed(buf)
       /\ WellFormed(DropFront(buf, DeclaredSize(buf)))

\* decode has been called since the last append, and dec is that call.
JustDecoded == dec.state = "called" /\ (fed = << >> \/ fed[Len(fed)].decoded)

\* Appending the whole of buf at once and calling decode until it yields no
\* further record: the records yielded, and whether the run ended in a panic
\* or an error.
RECURSIVE DecodeAll(_, _)
DecodeAll(buf, recs) ==
    LET r == RecordDecoderDecode(buf)
    IN IF r.out.kind = "panic" THEN [records |-> recs, aborted |-> TRUE]
       ELSE IF Yielded(r.out) THEN DecodeAll(r.src, Append(recs, r.out.val.val[1]))
       ELSE [records |-> recs, aborted |-> ~r.out.val.ok]

\* Every append so far was of one byte and was followed by a call of decode.
ByteWise(f) == \A i \in 1..Len(f) : f[i].n = 1 /\ f[i].decoded

\* C13: when the buffer holds less than a header, or a header whose declared
\* size exceeds the buffered bytes (an empty buffer included), decode reports
\* "incomplete" (Ok(None)), leaves the buffer unchanged and does not panic.
C13_IncompleteLeavesBuffer ==
    (JustDecoded /\ Incomplete(dec.before))
        => /\ dec.out.kind = "value"
           /\ dec.out.val = Ok(None)
           /\ src = dec.before

\* C14: when the buffer holds at least `size` bytes for the record at its front,
\* one call of decode yields one Record and consumes exactly `size` bytes from
\* the front, leaving the following bytes untouched.
C14_CompleteConsumesSize ==
    (JustDecoded /\ ~Incomplete(dec.before) /\ FrontWellFormed(dec.before))
        => /\ Yielded(dec.out)
           /\ src = DropFront(dec.before, DeclaredSize(dec.before))

\* C15: for a stream of well-formed records, appending one byte at a time and
\* calling decode after each append runs to the end and yields the same
\* sequence of Records as appending the whole stream at once and calling decode
\* repeatedly.
C15_ChunkIndependent ==
    (WellFormed(stream) /\ fed # << >> /\ ByteWise(fed))
        => /\ ~Panicked(dec)
           /\ ~DecodeAll(stream, << >>).aborted
           /\ Appended(fed) = Len(stream)
                  => dec.records = DecodeAll(stream, << >>).records

\* C16: a complete record whose call chain's count implies a length past the
\* record's declared size is rejected with an error.
C16_OverrunRejected ==
    (JustDecoded /\ ~Incomplete(dec.before) /\ CallChainOverrun(dec.before))
        => dec.out.kind = "value" /\ ~dec.out.val.ok

\* -------------------------------------------------------- ring buffer claims
\* The published read position is behind the bytes consumed, these are behind
\* the write position the drain loop loaded, and that is behind the published
\* write position; every byte consumed is the byte the kernel wrote at its
\* position; the drain loop always has a step to take.
C18_Ordered ==
    /\ data_tail <= Len(got)
    /\ Len(got) <= seen
    /\ seen <= data_head
    /\ pc = "reading" => pos = Len(got)
    /\ \A i \in 1..Len(got) : got[i] = ByteAt(i - 1)
    /\ ENABLED Drain

\* A drain that finds no new data reports "nothing" and is over; the read
\* position is published only as the number of bytes consumed.
C18_Step ==
    /\ (pc = "idle" /\ data_head = data_tail /\ <<seen, report>>' # <<seen, report>>)
           => (report' = "nothing" /\ pc' = "idle" /\ UNCHANGED <<data_tail, got>>)
    /\ data_tail' # data_tail => (data_tail' = Len(got) /\ got' = got)
    /\ got' # got => (pc = "reading" /\ seen' = seen /\ Len(got) < seen)

\* C18: between the kernel (single producer) and the drain loop (single
\* consumer), under every interleaving the consumer loads the write position
\* before reading record bytes and publishes its read position only after
\* consuming them: it never reads at or beyond the write position it observed,
\* the read position never passes the write position, and the consumer never
\* blocks on an empty buffer but reports nothing to decode.
C18_RingProtocol == [](C18_Ordered) /\ [][C18_Step]_vars

\* The buffer has wrapped around, everything has been consumed and the last
\* drain found nothing.
C18_Witness ==
    /\ Len(got) > RingSize
    /\ data_tail = data_head
    /\ data_head = wpos
    /\ report = "nothing"

\* The single bit flag is set in the misc value n.
BitSet(n, flag) == (n \div flag) % 2 = 1

\* C21: Metadata::from extracts its three single-bit flags by mask: for every
\* misc value each flag is true if and only if its own bit is set in the value,
\* independently of the other bits.
C21_FlagsByMask ==
    conv.fn = "Metadata::from"
        => /\ conv.out.kind = "value"
           /\ conv.out.val._multipurpose_lol
                  <=> BitSet(conv.arg, PERF_RECORD_MISC_MMAP_DATA)
           /\ conv.out.val._exact_ip <=> BitSet(conv.arg, PERF_RECORD_MISC_EXACT_IP)
           /\ conv.out.val._reserved <=> BitSet(conv.arg, PERF_RECORD_MISC_EXT_RESERVED)

\* ---------------------------------------------------- further counts claims
\* C22: create() on a builder to which no event was added makes no open attempt
\* and returns (Err(()), Ok(())): no aggregate, and no failed event reported.
C22_EmptyBuilder ==
    (last.op = "create" /\ last.self.to_count = << >>)
        => /\ last.trace = << >>
           /\ last.ret_counts = Err(Unit)
           /\ last.ret_failures = Ok(Unit)
           /\ counts = None

\* create() has been called on a builder fresh from Counts::new.
C22_Witness ==
    /\ last.op = "create"
    /\ last.calls = << >>
    /\ last.self.to_count = << >>
    /\ ~last.ret_counts.ok
    /\ last.ret_failures.ok

\* C23: the Ok/Err outcome of start_all_available() depends only on the open
\* outcomes: it is Ok(Counts) whenever at least one counter opened, whatever
\* the enables returned (even when every one failed), and its Err ("No counters
\* started successfully.") is returned only when no counter opened.
C23_StartResultsDiscarded ==
    last.op = "start_all_available" =>
        /\ last.ret.ok <=> last.res[1].ok
        /\ OpenedEvents # {} => last.ret.ok
        /\ ~last.ret.ok =>
              /\ last.ret.err = "No counters started successfully."
              /\ OpenedEvents = {}
              /\ last.started = None

\* start_all_available() returned Ok although enable failed on every counter,
\* and there was more than one.
C23_Witness ==
    /\ last.op = "start_all_available"
    /\ last.ret.ok
    /\ Len(Enables) > 1
    /\ \A i \in 1..Len(Enables) : ~Enables[i].res.ok
    /\ \A i \in 1..Len(last.started[1]) : ~last.started[1][i].ok

\* The builder holds the scope Counts::new was given; every open request of
\* create() carries the builder's scope; the counters of a Counts all have the
\* same pid selector and the same cpu selector.
C24_OneScope ==
    /\ last.op = "new" => (builder[1].pid = last.pid /\ builder[1].cpu = last.cpu)
    /\ last.op = "create" =>
          \A i \in 1..Len(Opens) :
             Opens[i].pid = last.self.pid /\ Opens[i].cpu = last.self.cpu
    /\ counts # None =>
          \A i, j \in 1..Len(counts[1].counters) :
             /\ kernel[counts[1].counters[i].handle].pid
                    = kernel[counts[1].counters[j].handle].pid
             /\ kernel[counts[1].counters[i].handle].cpu
                    = kernel[counts[1].counters[j].handle].cpu

\* event() and all_available() hand on the scope of the builder they are given.
C24_Step ==
    (builder # None /\ builder' # None)
        => (builder'[1].pid = builder[1].pid /\ builder'[1].cpu = builder[1].cpu)

\* C24: every open attempt made by create() uses the one (PidConfig, CpuConfig)
\* scope given to Counts::new: event() and all_available() never change it, so
\* all counters of one Counts share the pid selector and the cpu selector.
C24_SingleScope == [](C24_OneScope) /\ [][C24_Step]_vars

\* create() opened several counters for another process on one cpu, on a
\* builder that went through all_available() and event().
C24_Witness ==
    /\ last.op = "create"
    /\ last.self.pid # PidCurrent
    /\ last.self.cpu # CpuAll
    /\ Len(last.calls) > 1
    /\ \E i, j \in 1..Len(last.calls) : last.calls[i] = AllEvents /\ Len(last.calls[j]) = 1
    /\ counts # None
    /\ Len(counts[1].counters) > 1

\* The handles whose enable or read request failed in the last call.
FailedHandles ==
    {last.trace[i].handle :
        i \in {j \in 1..Len(last.trace) :
                  last.trace[j].call \in {"enable", "read"} /\ ~last.trace[j].res.ok}}

\* After start() or read() every counter of the Counts still has its open
\* handle, those whose request failed included.
C25_Kept ==
    (counts # None /\ last.op \in {"start", "read"})
        => /\ OwnedHandles \subseteq DOMAIN kernel
           /\ FailedHandles \subseteq OwnedHandles

\* A start() or read() leaves the counters and the open handles as they were
\* and makes one request per counter, in counter order, also for the counters
\* whose request failed in the start() or read() before it.
C25_Step ==
    (counts # None /\ last' # last /\ last'.op \in {"start", "read"})
        => /\ counts' = counts
           /\ DOMAIN kernel' = DOMAIN kernel
           /\ Len(last'.trace) = Len(counts[1].counters)
           /\ \A i \in 1..Len(counts[1].counters) :
                 last'.trace[i].handle = counts[1].counters[i].handle
           /\ last.op \in {"start", "read"} =>
                 FailedHandles \subseteq
                     {last'.trace[i].handle : i \in 1..Len(last'.trace)}

\* C25: start() and read() leave the collection of counters unchanged in
\* membership and order: a counter whose enable or read failed is neither
\* removed nor closed, and the next start() or read() attempts it again.
C25_CountersKept == [](C25_Kept) /\ [][C25_Step]_vars

\* A read() that followed a read() failed on one counter of several, and every
\* counter still has its handle.
C25_Witness ==
    /\ counts # None
    /\ last.op = "read"
    /\ last.again
    /\ Len(counts[1].counters) > 1
    /\ FailedHandles # {}
    /\ Len(last.ret) < Len(counts[1].counters)
    /\ OwnedHandles \subseteq DOMAIN kernel

=============================================================================
